---- MODULE Spec2Model ----
(***************************************************************************)
(* A model of the KFCT extraction pipeline of core/pdf_extractor.py:       *)
(* extract_and_clean_pdf and the functions it calls (clean_table,          *)
(* post_process_data, standardize_columns, find_header_row).               *)
(*                                                                         *)
(* Cell text is a TLA+ string, processed character by character the way    *)
(* the Python string methods and regular expressions of the source do.     *)
(* A pandas DataFrame is a record [columns, rows]: the column labels in    *)
(* order and the rows in index order, each row one cell per column.        *)
(***************************************************************************)
EXTENDS Naturals, Sequences, FiniteSets, TLC

(***************************************************************************)
(* Cells.  A str cell carries its text; NaN is pandas' missing value;      *)
(* None is the Python None the code-matching lambda returns; a num cell    *)
(* is a parsed number, held as its decimal text without a leading or a     *)
(* trailing zero ("12.5", "7", "0").                                       *)
(***************************************************************************)
Str(s) ==
    [k |-> "str", s |-> s]

NaN ==
    [k |-> "nan", s |-> ""]

None ==
    [k |-> "none", s |-> ""]

Num(s) ==
    [k |-> "num", s |-> s]

\* isinstance(x, str)
IsStr(x) ==
    x.k = "str"

\* pandas isna(): NaN and None both count as missing
IsNA(x) ==
    x.k \in {"nan", "none"}

\* Python str(x): 'nan' for NaN, 'None' for None
PyStr(x) ==
    CASE x.k = "nan" -> "nan"
      [] x.k = "none" -> "None"
      [] OTHER -> x.s

(***************************************************************************)
(* Characters and the string methods the source uses.                      *)
(***************************************************************************)
UpperLetters ==
    "ABCDEFGHIJKLMNOPQRSTUVWXYZ"

LowerLetters ==
    "abcdefghijklmnopqrstuvwxyz"

Digits ==
    "0123456789"

Whitespace ==
    {" ", "\n", "\r", "\t"}

CharAt(s, i) ==
    SubSeq(s, i, i)

CharIn(c, alphabet) ==
    \E i \in 1..Len(alphabet) : CharAt(alphabet, i) = c

\* the characters of Digits and of UpperLetters as sets
DigitSet ==
    {CharAt(Digits, i) : i \in 1..Len(Digits)}

UpperSet ==
    {CharAt(UpperLetters, i) : i \in 1..Len(UpperLetters)}

IsDigit(c) ==
    c \in DigitSet

IsUpper(c) ==
    c \in UpperSet

\* each upper-case letter with its lower-case letter
LowerOf ==
    [c \in UpperSet |->
        CharAt(LowerLetters, CHOOSE i \in 1..Len(UpperLetters) : CharAt(UpperLetters, i) = c)]

LowerChar(c) ==
    IF IsUpper(c) THEN LowerOf[c] ELSE c

RECURSIVE lower(_)
\* str.lower()
lower(s) ==
    IF s = "" THEN "" ELSE LowerChar(CharAt(s, 1)) \o lower(SubSeq(s, 2, Len(s)))

RECURSIVE replace(_, _, _)
\* str.replace(old, new) for a one-character old
replace(s, old, new) ==
    IF s = "" THEN ""
    ELSE (IF CharAt(s, 1) = old THEN new ELSE CharAt(s, 1))
         \o replace(SubSeq(s, 2, Len(s)), old, new)

\* str.strip(): leading and trailing whitespace removed
strip(s) ==
    LET solid == {i \in 1..Len(s) : CharAt(s, i) \notin Whitespace}
    IN  IF solid = {} THEN ""
        ELSE SubSeq(s, CHOOSE i \in solid : \A j \in solid : i <= j,
                       CHOOSE i \in solid : \A j \in solid : j <= i)

\* Python's  key in text
Contains(key, text) ==
    \E i \in 0..(Len(text) - Len(key)) : SubSeq(text, i + 1, i + Len(key)) = key

(***************************************************************************)
(* Sequence helpers.                                                       *)
(***************************************************************************)
RECURSIVE SelectIdx(_, _, _)
\* the positions i of 1..n, in order, with keep[i]
SelectIdx(keep, i, n) ==
    IF i > n THEN <<>>
    ELSE (IF keep[i] THEN <<i>> ELSE <<>>) \o SelectIdx(keep, i + 1, n)

RECURSIVE Flatten(_)
Flatten(ss) ==
    IF ss = <<>> THEN <<>> ELSE Head(ss) \o Flatten(Tail(ss))

Range(f) ==
    {f[i] : i \in DOMAIN f}

(***************************************************************************)
(* DataFrames.                                                             *)
(***************************************************************************)
\* pd.DataFrame()
EmptyDataFrame ==
    [columns |-> <<>>, rows |-> <<>>]

\* how many columns carry the label: 0 makes df[name] a KeyError, 1 a
\* Series, 2 or more a DataFrame (which has no .str accessor)
ColCount(df, name) ==
    Cardinality({i \in 1..Len(df.columns) : df.columns[i] = name})

ColIdx(df, name) ==
    CHOOSE i \in 1..Len(df.columns) : df.columns[i] = name

\* the rows at the given positions, in that order
TakeRows(df, idx) ==
    [df EXCEPT !.rows = [j \in 1..Len(idx) |-> df.rows[idx[j]]]]

\* df[mask]: the rows whose mask is true
FilterRows(df, mask) ==
    TakeRows(df, SelectIdx(mask, 1, Len(df.rows)))

\* the columns at the given positions, in that order
TakeCols(df, idx) ==
    [columns |-> [j \in 1..Len(idx) |-> df.columns[idx[j]]],
     rows |-> [r \in 1..Len(df.rows) |-> [j \in 1..Len(idx) |-> df.rows[r][idx[j]]]]]

\* df[label] = values: a new last column
AddCol(df, label, values) ==
    [columns |-> Append(df.columns, label),
     rows |-> [r \in 1..Len(df.rows) |-> Append(df.rows[r], values[r])]]

\* df[label] = values for a label present exactly once
SetCol(df, label, values) ==
    [df EXCEPT !.rows = [r \in 1..Len(df.rows) |->
                            [df.rows[r] EXCEPT ![ColIdx(df, label)] = values[r]]]]

(***************************************************************************)
(* clean_table                                                             *)
(***************************************************************************)
\* a variant of CleanCell: text that is empty after the strip made NaN
CleanCell_BlankToNaN(x) ==
    IF IsStr(x)
    THEN (IF strip(replace(replace(x.s, "\n", " "), "\r", " ")) = "" THEN NaN
          ELSE Str(strip(replace(replace(x.s, "\n", " "), "\r", " "))))
    ELSE x

\* the applymap lambda: line breaks to spaces, then strip, for str cells only
CleanCell(x) ==
    IF IsStr(x) THEN Str(strip(replace(replace(x.s, "\n", " "), "\r", " "))) ELSE x

clean_table(df) ==
    LET rowsKept == FilterRows(df, [r \in 1..Len(df.rows) |->
                                      \E j \in 1..Len(df.rows[r]) : ~IsNA(df.rows[r][j])])
        colKeep == [j \in 1..Len(rowsKept.columns) |->
                       \E r \in 1..Len(rowsKept.rows) : ~IsNA(rowsKept.rows[r][j])]
        colsKept == TakeCols(rowsKept, SelectIdx(colKeep, 1, Len(rowsKept.columns)))
    IN  [colsKept EXCEPT !.rows = [r \in 1..Len(colsKept.rows) |->
                                      [j \in 1..Len(colsKept.columns) |->
                                          CleanCell(colsKept.rows[r][j])]]]

(***************************************************************************)
(* pd.concat(dfs, ignore_index=True): the union of the column labels in    *)
(* order of first appearance, the rows of every frame in order, NaN where  *)
(* a frame lacks a column.                                                 *)
(***************************************************************************)
RECURSIVE UnionLabels(_, _)
UnionLabels(acc, labels) ==
    IF labels = <<>> THEN acc
    ELSE UnionLabels(IF Head(labels) \in Range(acc) THEN acc ELSE Append(acc, Head(labels)),
                     Tail(labels))

Reindex(df, labels) ==
    [r \in 1..Len(df.rows) |->
        [j \in 1..Len(labels) |->
            IF ColCount(df, labels[j]) = 0 THEN NaN ELSE df.rows[r][ColIdx(df, labels[j])]]]

concat(dfs) ==
    LET labels == UnionLabels(<<>>, Flatten([i \in 1..Len(dfs) |-> dfs[i].columns]))
    IN  [columns |-> labels,
         rows |-> Flatten([i \in 1..Len(dfs) |-> Reindex(dfs[i], labels)])]

(***************************************************************************)
(* find_header_row and standardize_columns                                 *)
(***************************************************************************)
\* the dict of standardize_columns, in its insertion order
column_map ==
    << <<"code", "food_code">>,
       <<"food", "food_name_english">>,
       <<"water", "water_g">>,
       <<"energy", "energy_kcal">>,
       <<"protein", "protein_g">>,
       <<"fat", "fat_g">>,
       <<"carbohydrate", "carbs_g">>,
       <<"fibre", "fibre_g">>,
       <<"ca", "calcium_mg">>,
       <<"calcium", "calcium_mg">>,
       <<"fe", "iron_mg">>,
       <<"iron", "iron_mg">>,
       <<"zn", "zinc_mg">>,
       <<"zinc", "zinc_mg">>,
       <<"vit a", "vit_a_rae_mcg">>,
       <<"retinol", "vit_a_rae_mcg">>,
       <<"thiamin", "thiamin_mg">>,
       <<"riboflavin", "riboflavin_mg">>,
       <<"niacin", "niacin_mg">>,
       <<"vit c", "vit_c_mg">> >>

RECURSIVE JoinLower(_, _)
\* ' '.join(str(v).lower() for v in row.values), from cell j on
JoinLower(row, j) ==
    IF j > Len(row) THEN ""
    ELSE lower(PyStr(row[j])) \o (IF j < Len(row) THEN " " ELSE "") \o JoinLower(row, j + 1)

IsHeaderRow(row) ==
    LET row_str == JoinLower(row, 1)
    IN  Contains("food", row_str) /\ Contains("protein", row_str) /\ Contains("energy", row_str)

\* a variant of find_header_row: the last row holding the keywords returned
find_header_row_Last(df) ==
    LET hits == {i \in 1..Len(df.rows) : IsHeaderRow(df.rows[i])}
    IN  IF hits = {} THEN 0 ELSE (CHOOSE i \in hits : \A j \in hits : j <= i) - 1

\* the index label of the first row holding the three keywords, 0 when
\* there is none; the labels are 0, 1, 2, ... so row i is df.rows[i + 1]
find_header_row(df) ==
    LET hits == {i \in 1..Len(df.rows) : IsHeaderRow(df.rows[i])}
    IN  IF hits = {} THEN 0 ELSE (CHOOSE i \in hits : \A j \in hits : i <= j) - 1

\* a variant of MapColumn: the value of the last key found
MapColumn_LastMatch(label, cell) ==
    LET col_name == lower(PyStr(cell))
        found == {m \in 1..Len(column_map) : Contains(column_map[m][1], col_name)}
    IN  IF found = {} THEN "unknown_" \o label
        ELSE column_map[CHOOSE m \in found : \A n \in found : n <= m][2]

\* the name one column gets: the value of the first key found in the
\* lower-cased header cell, unknown_<label> when no key is found
MapColumn(label, cell) ==
    LET col_name == lower(PyStr(cell))
        found == {m \in 1..Len(column_map) : Contains(column_map[m][1], col_name)}
    IN  IF found = {} THEN "unknown_" \o label
        ELSE column_map[CHOOSE m \in found : \A n \in found : m <= n][2]

\* every column renamed from the header row, the header row and the rows
\* above it dropped
standardize_columns(df) ==
    LET header_row == find_header_row(df)
    IN  [columns |-> [j \in 1..Len(df.columns) |->
                         MapColumn(df.columns[j], df.rows[header_row + 1][j])],
         rows |-> SubSeq(df.rows, header_row + 2, Len(df.rows))]

(***************************************************************************)
(* post_process_data                                                       *)
(***************************************************************************)
\* a variant of IsFoodCode: the pattern without its end anchor
IsFoodCode_NoEndAnchor(x) ==
    LET t == strip(PyStr(x))
        d == IF t # "" /\ IsUpper(CharAt(t, 1)) THEN SubSeq(t, 2, Len(t)) ELSE t
    IN  d # "" /\ IsDigit(CharAt(d, 1))

\* re.match(r'^[A-Z]?[0-9]{1,4}$', str(x).strip())
IsFoodCode(x) ==
    LET t == strip(PyStr(x))
        d == IF t # "" /\ IsUpper(CharAt(t, 1)) THEN SubSeq(t, 2, Len(t)) ELSE t
    IN  /\ Len(d) \in 1..4
        /\ \A i \in 1..Len(d) : IsDigit(CharAt(d, i))

\* the lambda of the food_code column: the cell when it is a code, else None
CodeOf(x) ==
    IF IsFoodCode(x) THEN x ELSE None

\* Series.ffill(): each missing value takes the last value present before it
ffill(values) ==
    [i \in 1..Len(values) |->
        LET seen == {j \in 1..i : ~IsNA(values[j])}
        IN  IF seen = {} THEN values[i]
            ELSE values[CHOOSE j \in seen : \A m \in seen : m <= j]]

\* the food_code column before the fill: one value per row of the frame
RawCodes(df) ==
    [r \in 1..Len(df.rows) |-> CodeOf(df.rows[r][1])]

\* the food_name_english column: the second column for a row with a code,
\* the first column for a row without
DerivedNames(df) ==
    LET codes == RawCodes(df)
    IN  [r \in 1..Len(df.rows) |->
            IF codes[r] # None THEN df.rows[r][2] ELSE df.rows[r][1]]

\* the food_code column after the fill
DerivedCodes(df) ==
    ffill(RawCodes(df))

\* lines 171-178: the first two columns renamed col1 and col2, food_code and
\* food_name_english appended as the last two columns
DeriveIdentity(df) ==
    LET renamed == [df EXCEPT !.columns = [j \in 1..Len(df.columns) |->
                                              CASE j = 1 -> "col1"
                                                [] j = 2 -> "col2"
                                                [] OTHER -> df.columns[j]]]
    IN  AddCol(AddCol(renamed, "food_code", DerivedCodes(df)),
               "food_name_english", DerivedNames(df))

\* lines 170-181
IdentifyColumns(df) ==
    IF Len(df.columns) > 1 THEN standardize_columns(DeriveIdentity(df)) ELSE df

nutrient_cols ==
    <<"energy_kcal", "protein_g", "fat_g", "carbs_g", "fibre_g",
      "calcium_mg", "iron_mg", "zinc_mg", "vit_a_rae_mcg", "thiamin_mg",
      "riboflavin_mg", "niacin_mg", "vit_c_mg">>

final_cols ==
    <<"food_code", "food_name_english", "category">> \o nutrient_cols

\* a variant of IsHeaderLeak: the letter case kept
IsHeaderLeak_CaseSensitive(x) ==
    IsStr(x) /\ Contains("protein", x.s)

\* str.contains('protein', case=False, na=False)
IsHeaderLeak(x) ==
    IsStr(x) /\ Contains("protein", lower(x.s))

\* line 184
DropHeaderLeaks(df) ==
    FilterRows(df, [r \in 1..Len(df.rows) |->
                       ~IsHeaderLeak(df.rows[r][ColIdx(df, "protein_g")])])

\* the end of the run of digits that starts at position i (i - 1 when the
\* character at i is no digit)
DigitsEnd(s, i) ==
    LET stop == {j \in i..Len(s) : ~IsDigit(CharAt(s, j))}
    IN  IF stop = {} THEN Len(s) ELSE (CHOOSE j \in stop : \A m \in stop : j <= m) - 1

\* a variant of ExtractNumber: the pattern without its decimal part
ExtractNumber_IntegerOnly(s) ==
    LET digs == {i \in 1..Len(s) : IsDigit(CharAt(s, i))}
        start == CHOOSE i \in digs : \A j \in digs : i <= j
    IN  IF digs = {} THEN "" ELSE SubSeq(s, start, DigitsEnd(s, start))

\* str.extract(r'(\d+\.?\d*)'): the first match, "" when there is none
ExtractNumber(s) ==
    LET digs == {i \in 1..Len(s) : IsDigit(CharAt(s, i))}
        start == CHOOSE i \in digs : \A j \in digs : i <= j
        a == DigitsEnd(s, start)
    IN  IF digs = {} THEN ""
        ELSE IF a < Len(s) /\ CharAt(s, a + 1) = "."
             THEN SubSeq(s, start, DigitsEnd(s, a + 2))
             ELSE SubSeq(s, start, a)

RECURSIVE StripLeadingZeros(_)
StripLeadingZeros(s) ==
    IF Len(s) > 1 /\ CharAt(s, 1) = "0" THEN StripLeadingZeros(SubSeq(s, 2, Len(s))) ELSE s

RECURSIVE StripTrailingZeros(_)
StripTrailingZeros(s) ==
    IF s # "" /\ CharAt(s, Len(s)) = "0"
    THEN StripTrailingZeros(SubSeq(s, 1, Len(s) - 1)) ELSE s

\* pd.to_numeric(token, errors='coerce').fillna(0) for a token of ExtractNumber
ToNumeric(token) ==
    LET dot == {i \in 1..Len(token) : CharAt(token, i) = "."}
        p == IF dot = {} THEN Len(token) + 1 ELSE CHOOSE i \in dot : TRUE
        whole == StripLeadingZeros(SubSeq(token, 1, p - 1))
        frac == StripTrailingZeros(SubSeq(token, p + 1, Len(token)))
    IN  IF token = "" THEN Num("0")
        ELSE Num(whole \o (IF frac = "" THEN "" ELSE "." \o frac))

\* lines 196-198 for one cell
ParseNutrient(x) ==
    ToNumeric(ExtractNumber(PyStr(x)))

RECURSIVE CleanNumeric(_, _)
\* lines 193-198: every nutrient column that is present, from the c-th on
CleanNumeric(df, c) ==
    IF c > Len(nutrient_cols) THEN df
    ELSE IF ColCount(df, nutrient_cols[c]) = 0 THEN CleanNumeric(df, c + 1)
    ELSE CleanNumeric(
             SetCol(df, nutrient_cols[c],
                    [r \in 1..Len(df.rows) |->
                        ParseNutrient(df.rows[r][ColIdx(df, nutrient_cols[c])])]),
             c + 1)

category_map ==
    << <<"A", "Cereals and their products">>,
       <<"B", "Starchy roots, tubers, and their products">>,
       <<"C", "Legumes, and their products">>,
       <<"D", "Nuts, seeds and their products">>,
       <<"E", "Vegetables and their products">>,
       <<"F", "Fruits and their products">>,
       <<"G", "Meat, poultry and their products">>,
       <<"H", "Fish, other aquatic animals and their products">>,
       <<"J", "Milk, milk products and eggs">>,
       <<"K", "Oils and fats">>,
       <<"L", "Beverages">>,
       <<"M", "Spices and condiments">>,
       <<"N", "Miscellaneous">>,
       <<"P", "Infant foods">>,
       <<"S", "Foods for special dietary use">> >>

\* a variant of Categorize: the whole code looked up, not its first character
Categorize_WholeCode(x) ==
    LET hit == {m \in 1..Len(category_map) : IsStr(x) /\ category_map[m][1] = x.s}
    IN  IF hit = {} THEN Str("Uncategorized")
        ELSE Str(category_map[CHOOSE m \in hit : TRUE][2])

\* .str[0].map({...}).fillna('Uncategorized') for one food_code cell
Categorize(x) ==
    LET hit == {m \in 1..Len(category_map) :
                   IsStr(x) /\ x.s # "" /\ category_map[m][1] = CharAt(x.s, 1)}
    IN  IF hit = {} THEN Str("Uncategorized")
        ELSE Str(category_map[CHOOSE m \in hit : TRUE][2])

\* lines 201-217
AddCategory(df) ==
    AddCol(df, "category",
           [r \in 1..Len(df.rows) |-> Categorize(df.rows[r][ColIdx(df, "food_code")])])

\* a variant of NameLongEnough: the length test off by one
NameLongEnough_OffByOne(x) ==
    IsStr(x) /\ Len(x.s) >= 2

\* line 221 for one name: .str.len() > 2 (NaN for a cell that is no str)
NameLongEnough(x) ==
    IsStr(x) /\ Len(x.s) > 2

\* lines 220-221
DropBadNames(df) ==
    FilterRows(df, [r \in 1..Len(df.rows) |->
                       /\ ~IsNA(df.rows[r][ColIdx(df, "food_name_english")])
                       /\ NameLongEnough(df.rows[r][ColIdx(df, "food_name_english")])])

\* the subset of drop_duplicates
DupKey(df, row) ==
    <<row[ColIdx(df, "food_code")], row[ColIdx(df, "food_name_english")]>>

\* a variant of drop_duplicates: the last row of each key kept
drop_duplicates_KeepLast(df) ==
    TakeRows(df, SelectIdx([i \in 1..Len(df.rows) |->
                               \A j \in (i + 1)..Len(df.rows) :
                                   DupKey(df, df.rows[j]) # DupKey(df, df.rows[i])],
                           1, Len(df.rows)))

\* line 222: a row is kept when no earlier row has its key
drop_duplicates(df) ==
    TakeRows(df, SelectIdx([i \in 1..Len(df.rows) |->
                               \A j \in 1..(i - 1) :
                                   DupKey(df, df.rows[j]) # DupKey(df, df.rows[i])],
                           1, Len(df.rows)))

\* lines 225-226: the final columns that are present, in the final order
SelectFinal(df) ==
    LET present == SelectIdx([c \in 1..Len(final_cols) |-> ColCount(df, final_cols[c]) > 0],
                             1, Len(final_cols))
    IN  TakeCols(df, [j \in 1..Len(present) |-> ColIdx(df, final_cols[present[j]])])

\* the frame as it stands before line 222
BeforeDedup(df) ==
    DropBadNames(AddCategory(CleanNumeric(DropHeaderLeaks(IdentifyColumns(df)), 1)))

\* the exception post_process_data raises on df, "" when it returns:
\* df[name] is a KeyError when no column is named name, and a DataFrame,
\* which has no .str accessor, when two columns are
PostProcessError(df) ==
    LET d == IdentifyColumns(df)
    IN  CASE ColCount(d, "protein_g") = 0 -> "KeyError"
          [] ColCount(d, "protein_g") > 1 -> "AttributeError"
          [] \E c \in 1..Len(nutrient_cols) : ColCount(d, nutrient_cols[c]) > 1
               -> "AttributeError"
          [] ColCount(d, "food_code") = 0 -> "KeyError"
          [] ColCount(d, "food_code") > 1 -> "AttributeError"
          [] ColCount(d, "food_name_english") = 0 -> "KeyError"
          [] ColCount(d, "food_name_english") > 1 -> "AttributeError"
          [] OTHER -> ""

post_process_data(df) ==
    LET e == PostProcessError(df)
    IN  [exc |-> e,
         df |-> IF e = "" THEN SelectFinal(drop_duplicates(BeforeDedup(df)))
                ELSE EmptyDataFrame]

(***************************************************************************)
(* What the two extraction strategies may return.  camelot's tables hold   *)
(* text in every cell ('' for an empty one); tabula's hold NaN for an      *)
(* empty cell.  Column labels are the positions 0, 1, 2, ...               *)
(***************************************************************************)
ColLabels ==
    <<"0", "1", "2", "3", "4">>

Table(rows) ==
    [columns |-> SubSeq(ColLabels, 1, Len(rows[1])), rows |-> rows]

\* index, code, name, energy, protein under a header row; one (code, name)
\* pair twice with different nutrient text
TableCereals ==
    Table(<< <<Str(""), Str("Code"), Str("Food"), Str("Energy"), Str("Protein")>>,
             <<Str("1"), Str("A1"), Str("Maize"), Str("100"), Str("12.5 tr")>>,
             <<Str("2"), Str("A1"), Str("Maize"), Str("90"), Str("tr")>> >>)

\* code, name, energy, protein, fat under a header row; a wrapped name
TableNatural ==
    Table(<< <<Str("Code"), Str("Food"), Str("Energy"), Str("Protein"), Str("Fat")>>,
             <<Str("A1"), Str("Maize"), Str("100"), Str("12"), Str("1")>>,
             <<Str("flour, white"), Str(""), Str("90"), Str("11"), Str("2")>> >>)

\* a continuation page without a header row: a two-letter name inside
\* white space, line breaks in cells, a repeated header label
TableMeats ==
    Table(<< <<Str("x"), Str("G1"), Str(" Fe\n"), Str("1"), Str("*")>>,
             <<Str("4"), Str("G2"), Str("Beef\rstew"), Str("7.0"), Str("Protein")>>,
             <<Str("5"), Str("G3"), Str("Goat"), Str("109"), Str("20.")>> >>)

\* a header row without an energy label; empty cells read as NaN; a code
\* under the letter I, a code of digits only, a number under a minus sign
TableNoEnergy ==
    Table(<< <<Str("No"), Str("Code"), Str("Food"), Str("Protein"), Str("Zn")>>,
             <<NaN, NaN, Str("Rice"), Str("7"), Str("0.50")>>,
             <<NaN, Str("B7"), Str("Yam"), NaN, Str("tr")>>,
             <<NaN, Str("I3"), Str("Ice cream"), Str("-5"), Str(".5")>>,
             <<NaN, Str("1034"), Str("Salt"), Str("0"), NaN>> >>)

\* a header row without an energy label over one row, every cell a text
TableProteinOnly ==
    Table(<< <<Str(""), Str("Code"), Str("Food"), Str("Protein")>>,
             <<Str("1"), Str("A1"), Str("Maize"), Str("9")>> >>)

\* a header row and nothing under it
TableHeaderOnly ==
    Table(<< <<Str(""), Str("Code"), Str("Food"), Str("Energy"), Str("Protein")>> >>)

\* one column of text
TableNote ==
    Table(<< <<Str("Source: KFCT 2018")>> >>)

\* nothing but empty cells
TableBlank ==
    Table(<< <<NaN, NaN>> >>)

LatticeTables ==
    {TableCereals, TableNatural, TableMeats, TableHeaderOnly, TableProteinOnly}

StreamTables ==
    LatticeTables \cup {TableNoEnergy, TableNote, TableBlank}

\* the most tables the two strategies return together in one run
MaxTables ==
    2

SeqsUpTo(S, n) ==
    UNION {[1..m -> S] : m \in 0..n}

(***************************************************************************)
(* extract_and_clean_pdf as a process: pc is the step it is about to take. *)
(***************************************************************************)
VARIABLES
    pc,             \* "start", "lattice", "stream", "merge", "clean", "post",
                    \* "save", "finish"; "done" (returned), "raised"
    pdf_exists,     \* pdf_path.exists()
    lattice_call,   \* camelot.read_pdf: "none" (not called), "ok", "threw"
    stream_call,    \* tabula.read_pdf: "none", "ok", "threw"
    lattice_dfs,
    stream_tables,
    all_dfs,
    full_df,
    final_df,
    exc,            \* the exception that left the function, "" when none
    result,         \* the value returned (when pc = "done")
    progress,       \* the percentages given to the progress bar, in order
    messages,       \* the st.error / st.warning / st.write / st.success calls
    csv,            \* the frames written to OUTPUT_CSV_PATH, in order
    \* one call of clean_table, find_header_row, post_process_data or the
    \* food-code lambda
    fn_pc,          \* "off", "table", "cell", "frame", "cleaned", "recleaned",
                    \* "located", "matched", "processed"
    fragment,       \* the table given to clean_table and to find_header_row
    cell,           \* the cell given to the food-code lambda
    cleaned,        \* clean_table(fragment)
    recleaned,      \* clean_table(clean_table(fragment))
    header_row,     \* find_header_row(fragment)
    code,           \* what the food-code lambda returned for cell
    standardized,   \* post_process_data(fragment): the frame after line 181
    projected,      \* post_process_data(fragment): the exception and the frame returned
    \* one MealPlanner: its construction and one generate_meal_plan call
    pl_pc,          \* "off", "new", "failed" (the constructor raised), "ready",
                    \* "prompted", "responded", "returned", "raised"
    backend_config, \* the dict given to MealPlanner(...)
    server,         \* the Ollama server: whether it answers, the models it lists
    user_inputs,    \* the user_inputs dict: a function from its keys
    food_list_len,  \* len(food_list_str)
    backend,        \* self.backend: "none", "ollama" or "gemini"
    prompt,         \* the prompt built, NoPrompt before
    raw_response,   \* what backend.generate_plan returned, NoResponse before
    pl_exc,         \* the exception that left the constructor or the call
    pl_result,      \* what generate_meal_plan returned, <<>> before
    \* one browser session of the Streamlit app: a sequence of script runs
    ui_pc,          \* "off", "session"
    app_mode,       \* the sidebar option of the last run of app.py, "" before
    page,           \* the page that run routed to, "none" when no branch matched
    session_state,  \* st.session_state: a value, or Absent, for each key
    displayed,      \* the meal plan the last run showed and the condition shown with it
    attempt         \* how the last submitted generation attempt ended, "" before

pipeline_vars ==
    <<pc, pdf_exists, lattice_call, stream_call, lattice_dfs, stream_tables,
      all_dfs, full_df, final_df, exc, result, progress, messages, csv>>

fn_vars ==
    <<fn_pc, fragment, cell, cleaned, recleaned, header_row, code, standardized,
      projected>>

planner_vars ==
    <<pl_pc, backend_config, server, user_inputs, food_list_len, backend, prompt,
      raw_response, pl_exc, pl_result>>

ui_vars ==
    <<ui_pc, app_mode, page, session_state, displayed, attempt>>

vars ==
    <<pipeline_vars, fn_vars, planner_vars, ui_vars>>

Msg(level, text) ==
    [level |-> level, text |-> text]

\* no function call under way
FnOff ==
    /\ fn_pc = "off"
    /\ fragment = EmptyDataFrame
    /\ cell = NaN
    /\ cleaned = EmptyDataFrame
    /\ recleaned = EmptyDataFrame
    /\ header_row = 0
    /\ code = None
    /\ standardized = EmptyDataFrame
    /\ projected = [exc |-> "", df |-> EmptyDataFrame]

NoPrompt ==
    [vars |-> <<>>, key_nutrients |-> <<>>, food_list_len |-> 0]

NoResponse ==
    [json |-> FALSE, days |-> FALSE, meals |-> FALSE, numeric |-> FALSE]

\* no planner under way
PlannerOff ==
    /\ pl_pc = "off"
    /\ backend_config = [name |-> "", model |-> "", api_key |-> ""]
    /\ server = [up |-> FALSE, models |-> {}]
    /\ user_inputs = <<>>
    /\ food_list_len = 0
    /\ backend = "none"
    /\ prompt = NoPrompt
    /\ raw_response = NoResponse
    /\ pl_exc = ""
    /\ pl_result = <<>>

\* extract_and_clean_pdf at the given step, nothing done yet
\* a key that is not in st.session_state
Absent ==
    [k |-> "absent", s |-> ""]

NoDisplay ==
    [plan |-> "", condition |-> ""]

UiOff ==
    /\ ui_pc = "off"
    /\ app_mode = ""
    /\ page = ""
    /\ session_state = [key \in {"meal_plan", "last_user_inputs", "planner_backend",
                                  "gemini_api_key", "ollama_model"} |-> Absent]
    /\ displayed = NoDisplay
    /\ attempt = ""

PipelineAt(step) ==
    /\ pc = step
    /\ lattice_call = "none"
    /\ stream_call = "none"
    /\ lattice_dfs = <<>>
    /\ stream_tables = <<>>
    /\ all_dfs = <<>>
    /\ full_df = EmptyDataFrame
    /\ final_df = EmptyDataFrame
    /\ exc = ""
    /\ result = EmptyDataFrame
    /\ progress = <<>>
    /\ messages = <<>>
    /\ csv = <<>>

Init ==
    /\ PipelineAt("start")
    /\ pdf_exists \in BOOLEAN
    /\ FnOff
    /\ PlannerOff
    /\ UiOff

\* a variant of ProgressAt: the tabula milestone given the value of the
\* cleaning milestone
ProgressAt_StreamAtFifty(step) ==
    CASE step = "start" -> 0
      [] step = "lattice" -> 5
      [] step = "stream" -> 50
      [] step = "merge" -> 50
      [] step = "save" -> 90
      [] step = "finish" -> 100

\* the percentage given to the progress bar at each step (lines 30, 34, 49,
\* 64, 82, 87)
ProgressAt(step) ==
    CASE step = "start" -> 0
      [] step = "lattice" -> 5
      [] step = "stream" -> 20
      [] step = "merge" -> 50
      [] step = "save" -> 90
      [] step = "finish" -> 100

\* a variant of PathMissing: the check of the path left out
PathMissing_Skipped(exists) ==
    FALSE

\* line 26
PathMissing(exists) ==
    ~exists

\* lines 26-30
CheckPath ==
    /\ UNCHANGED <<fn_vars, planner_vars, ui_vars>>
    /\ pc = "start"
    /\ IF PathMissing(pdf_exists)
       THEN /\ messages' = Append(messages, Msg("error", "PDF file not found"))
            /\ result' = EmptyDataFrame
            /\ pc' = "done"
            /\ UNCHANGED progress
       ELSE /\ progress' = Append(progress, ProgressAt("start"))
            /\ pc' = "lattice"
            /\ UNCHANGED <<messages, result>>
    /\ UNCHANGED <<pdf_exists, lattice_call, stream_call, lattice_dfs, stream_tables,
                   all_dfs, full_df, final_df, exc, csv>>

\* lines 33-45: camelot throws, or returns some tables
ExtractLattice ==
    /\ UNCHANGED <<fn_vars, planner_vars, ui_vars>>
    /\ pc = "lattice"
    /\ progress' = Append(progress, ProgressAt("lattice"))
    /\ \E threw \in BOOLEAN, tables \in SeqsUpTo(LatticeTables, MaxTables) :
          IF threw
          THEN /\ tables = <<>>
               /\ lattice_call' = "threw"
               /\ lattice_dfs' = <<>>
               /\ messages' = Append(messages, Msg("warning", "Camelot (Lattice) extraction failed"))
          ELSE /\ lattice_call' = "ok"
               /\ lattice_dfs' = tables
               /\ messages' = Append(messages, Msg("write", "Camelot found tables"))
    /\ pc' = "stream"
    /\ UNCHANGED <<pdf_exists, stream_call, stream_tables, all_dfs, full_df, final_df,
                   exc, result, csv>>

\* lines 49-62: tabula throws, or returns some tables
ExtractStream ==
    /\ UNCHANGED <<fn_vars, planner_vars, ui_vars>>
    /\ pc = "stream"
    /\ progress' = Append(progress, ProgressAt("stream"))
    /\ \E threw \in BOOLEAN,
          tables \in SeqsUpTo(StreamTables, MaxTables - Len(lattice_dfs)) :
          IF threw
          THEN /\ tables = <<>>
               /\ stream_call' = "threw"
               /\ stream_tables' = <<>>
               /\ messages' = Append(messages, Msg("error", "Tabula (Stream) extraction failed"))
          ELSE /\ stream_call' = "ok"
               /\ stream_tables' = tables
               /\ messages' = Append(messages, Msg("write", "Tabula found tables"))
    /\ pc' = "merge"
    /\ UNCHANGED <<pdf_exists, lattice_call, lattice_dfs, all_dfs, full_df, final_df,
                   exc, result, csv>>

\* a variant of NoTables: the test for an empty list never true
NoTables_Never(dfs) ==
    FALSE

\* line 69
NoTables(dfs) ==
    dfs = <<>>

\* lines 64-71
Merge ==
    /\ UNCHANGED <<fn_vars, planner_vars, ui_vars>>
    /\ pc = "merge"
    /\ progress' = Append(progress, ProgressAt("merge"))
    /\ all_dfs' = lattice_dfs \o stream_tables
    /\ IF NoTables(all_dfs')
       THEN /\ messages' = Append(messages, Msg("error", "No tables could be extracted"))
            /\ result' = EmptyDataFrame
            /\ pc' = "done"
       ELSE /\ pc' = "clean"
            /\ UNCHANGED <<messages, result>>
    /\ UNCHANGED <<pdf_exists, lattice_call, stream_call, lattice_dfs, stream_tables,
                   full_df, final_df, exc, csv>>

\* lines 74-77
CleanAndConcat(dfs) ==
    concat([i \in 1..Len(dfs) |-> clean_table(dfs[i])])

Clean ==
    /\ UNCHANGED <<fn_vars, planner_vars, ui_vars>>
    /\ pc = "clean"
    /\ full_df' = CleanAndConcat(all_dfs)
    /\ pc' = "post"
    /\ UNCHANGED <<pdf_exists, lattice_call, stream_call, lattice_dfs, stream_tables,
                   all_dfs, final_df, exc, result, progress, messages, csv>>

\* line 80: an exception of post_process_data leaves extract_and_clean_pdf
PostProcess ==
    /\ UNCHANGED <<fn_vars, planner_vars, ui_vars>>
    /\ pc = "post"
    /\ LET r == post_process_data(full_df)
       IN  IF r.exc # ""
           THEN /\ exc' = r.exc
                /\ pc' = "raised"
                /\ UNCHANGED final_df
           ELSE /\ final_df' = r.df
                /\ pc' = "save"
                /\ UNCHANGED exc
    /\ UNCHANGED <<pdf_exists, lattice_call, stream_call, lattice_dfs, stream_tables,
                   all_dfs, full_df, result, progress, messages, csv>>

\* a variant of ReadyToSave: the save placed before post-processing too
ReadyToSave_Early(p) ==
    p \in {"post", "save"}

\* the step at which lines 82-85 run
ReadyToSave(p) ==
    p = "save"

\* lines 82-85
Save ==
    /\ UNCHANGED <<fn_vars, planner_vars, ui_vars>>
    /\ ReadyToSave(pc)
    /\ progress' = Append(progress, ProgressAt("save"))
    /\ csv' = Append(csv, final_df)
    /\ pc' = "finish"
    /\ UNCHANGED <<pdf_exists, lattice_call, stream_call, lattice_dfs, stream_tables,
                   all_dfs, full_df, final_df, exc, result, messages>>

\* lines 87-90
Finish ==
    /\ UNCHANGED <<fn_vars, planner_vars, ui_vars>>
    /\ pc = "finish"
    /\ progress' = Append(progress, ProgressAt("finish"))
    /\ messages' = Append(messages, Msg("success", "Successfully extracted and saved"))
    /\ result' = final_df
    /\ pc' = "done"
    /\ UNCHANGED <<pdf_exists, lattice_call, stream_call, lattice_dfs, stream_tables,
                   all_dfs, full_df, final_df, exc, csv>>

Next ==
    \/ CheckPath
    \/ ExtractLattice
    \/ ExtractStream
    \/ Merge
    \/ Clean
    \/ PostProcess
    \/ Save
    \/ Finish

Spec ==
    Init /\ [][Next]_vars

(***************************************************************************)
(* clean_table, find_header_row and the food-code lambda called on their   *)
(* own, each on one input drawn from the tables and cells below.           *)
(***************************************************************************)
\* cells of an extracted table: missing ones, empty text, white space only,
\* text with line breaks inside and white space around
RawCells ==
    {NaN, None, Str(""), Str(" \n"), Str("a\r\nb ")}

\* the most rows of a table of RawCells
MaxRows ==
    2

\* the tables of two columns over RawCells
GridTables ==
    UNION {{Table(rows) : rows \in [1..n -> [1..2 -> RawCells]]} : n \in 1..MaxRows}

\* rows of three cells: the three keywords in mixed case; two of them; a
\* data row; the keywords inside longer words; a keyword cut by a cell border
LabelRows ==
    {<<Str("FOOD"), Str("Energy (kcal)"), Str("Protein")>>,
     <<Str("Food"), Str("Protein"), NaN>>,
     <<Str("A1"), Str("Maize"), Str("12")>>,
     <<Str("seafood, high-energy"), Str("proteins"), None>>,
     <<Str("Foo"), Str("d energy"), Str("protein")>>}

\* the most rows of a table of LabelRows
MaxLabelRows ==
    3

LabelTables ==
    UNION {{Table(rows) : rows \in [1..n -> LabelRows]} : n \in 1..MaxLabelRows}

Fragments ==
    GridTables \cup LabelTables

\* the longest text of CodeTexts
MaxCodeLen ==
    5

RECURSIVE TextsUpTo(_, _)
\* the texts of at most n characters of the alphabet
TextsUpTo(alphabet, n) ==
    IF n = 0 THEN {""}
    ELSE LET shorter == TextsUpTo(alphabet, n - 1)
         IN  shorter \cup {t \o c : t \in shorter, c \in alphabet}

\* first-column cells as clean_table leaves them: text without white space
\* around it, or NaN
CodeCells ==
    {Str(t) : t \in TextsUpTo({"A", "b", "7"}, MaxCodeLen)}
    \cup {Str("A12"), Str("1034"), Str("B7"), Str("Ugali"), Str("12AB"), Str("a12"),
          Str("12345"), Str("A 7"), Str("7.0"), NaN}

\* header cells: no label, a label holding two keys of column_map with
\* different names, labels in mixed case, a label holding the key of
\* another nutrient
HeaderCells ==
    {NaN, Str("Food code"), Str("FOOD"), Str("Protein (g)"), Str("Carbohydrate"),
     Str("Energy")}

HeaderRows ==
    {<<a, b, c, d>> : a \in HeaderCells, b \in HeaderCells,
                      c \in HeaderCells, d \in HeaderCells}

\* cleaned frames of four columns as post_process_data receives them: a
\* header row over four data rows, or under a title row; the last column
\* of the data rows holds a number, no value and two repeated header labels
HeadedFrames ==
    LET data == << <<Str("1"), Str("A1"), Str("Maize"), Str("12")>>,
                   <<NaN, Str("B7"), Str("Yam"), NaN>>,
                   <<NaN, Str("C2"), Str("Beans"), Str("Protein")>>,
                   <<NaN, Str("C3"), Str("Peas"), Str("PROTEIN, g")>> >>
        title == <<Str("Table 1"), NaN, NaN, NaN>>
    IN  {Table(<<h>> \o data) : h \in HeaderRows}
        \cup {Table(<<title, h>> \o data) : h \in HeaderRows}

FnInit ==
    /\ PipelineAt("off")
    /\ pdf_exists = FALSE
    /\ PlannerOff
    /\ UiOff
    /\ \/ fn_pc = "table" /\ fragment \in Fragments /\ cell = NaN
       \/ fn_pc = "frame" /\ fragment \in HeadedFrames /\ cell = NaN
       \/ fn_pc = "cell" /\ fragment = EmptyDataFrame /\ cell \in CodeCells
    /\ cleaned = EmptyDataFrame
    /\ recleaned = EmptyDataFrame
    /\ header_row = 0
    /\ code = None
    /\ standardized = EmptyDataFrame
    /\ projected = [exc |-> "", df |-> EmptyDataFrame]

\* clean_table(fragment)
CleanOnce ==
    /\ fn_pc = "table"
    /\ cleaned' = clean_table(fragment)
    /\ fn_pc' = "cleaned"
    /\ UNCHANGED <<fragment, cell, recleaned, header_row, code, standardized, projected>>
    /\ UNCHANGED <<pipeline_vars, planner_vars, ui_vars>>

\* clean_table(clean_table(fragment))
CleanAgain ==
    /\ fn_pc = "cleaned"
    /\ recleaned' = clean_table(cleaned)
    /\ fn_pc' = "recleaned"
    /\ UNCHANGED <<fragment, cell, cleaned, header_row, code, standardized, projected>>
    /\ UNCHANGED <<pipeline_vars, planner_vars, ui_vars>>

\* find_header_row(fragment)
FindHeader ==
    /\ fn_pc = "table"
    /\ header_row' = find_header_row(fragment)
    /\ fn_pc' = "located"
    /\ UNCHANGED <<fragment, cell, cleaned, recleaned, code, standardized, projected>>
    /\ UNCHANGED <<pipeline_vars, planner_vars, ui_vars>>

\* the lambda of line 174 on cell
MatchCode ==
    /\ fn_pc = "cell"
    /\ code' = CodeOf(cell)
    /\ fn_pc' = "matched"
    /\ UNCHANGED <<fragment, cell, cleaned, recleaned, header_row, standardized, projected>>
    /\ UNCHANGED <<pipeline_vars, planner_vars, ui_vars>>

\* post_process_data(fragment)
PostProcessFrame ==
    /\ fn_pc = "frame"
    /\ standardized' = IdentifyColumns(fragment)
    /\ projected' = post_process_data(fragment)
    /\ fn_pc' = "processed"
    /\ UNCHANGED <<fragment, cell, cleaned, recleaned, header_row, code>>
    /\ UNCHANGED <<pipeline_vars, planner_vars, ui_vars>>

FnNext ==
    \/ CleanOnce
    \/ CleanAgain
    \/ FindHeader
    \/ MatchCode
    \/ PostProcessFrame

FnSpec ==
    FnInit /\ [][FnNext]_vars

(***************************************************************************)
(* core/planner_backends.py and core/llm_meal_planner.py: one MealPlanner  *)
(* is constructed and generate_meal_plan is called on it once.  An          *)
(* exception is the name of its class, "" standing for a normal return.    *)
(***************************************************************************)
\* 'except Exception as e: raise <wrapper>(...)' around a block that raised
\* the exception raised ("" when the block returned): every exception class
\* of the two files derives from Exception
ExceptException(raised, wrapper) ==
    IF raised = "" THEN "" ELSE wrapper

\* lines 67-70 of planner_backends.py: list() fails on a server that does
\* not answer; the model is looked for as a substring of the listed names
ListAndFindModel(srv, model) ==
    IF ~srv.up THEN "ConnectionError"
    ELSE IF ~\E name \in srv.models : Contains(model, name) THEN "PlannerModelNotFound"
    ELSE ""

\* OllamaBackend._check_model_availability (lines 64-72)
check_model_availability(srv, model) ==
    ExceptException(ListAndFindModel(srv, model), "PlannerConnectionError")

\* OllamaBackend.__init__ (lines 56-62)
OllamaBackend(srv, model) ==
    ExceptException(check_model_availability(srv, model), "PlannerConnectionError")

\* GeminiBackend.__init__ (lines 88-96); genai.configure and
\* GenerativeModel open no connection
GeminiBackend(api_key) ==
    IF api_key = "" THEN "PlannerConnectionError" ELSE ""

\* get_backend (lines 120-137): the exception raised and the backend made
get_backend(backend_name, config, srv) ==
    CASE lower(backend_name) = "ollama"
           -> [exc |-> OllamaBackend(srv, config.model),
               backend |-> IF OllamaBackend(srv, config.model) = "" THEN "ollama" ELSE "none"]
      [] lower(backend_name) = "gemini"
           -> [exc |-> GeminiBackend(config.api_key),
               backend |-> IF GeminiBackend(config.api_key) = "" THEN "gemini" ELSE "none"]
      [] OTHER -> [exc |-> "ValueError", backend |-> "none"]

\* MealPlanner.__init__ (lines 85-96 of llm_meal_planner.py)
NewMealPlanner(config, srv) ==
    IF config.name = "" THEN [exc |-> "ValueError", backend |-> "none"]
    ELSE get_backend(config.name, config, srv)

\* the replacement fields of PROMPT_INSTRUCTIONS (lines 36-76)
TemplateFields ==
    {"days", "age", "gender", "condition", "kcal_goal", "budget", "preferences",
     "food_list_str", "key_nutrients_str"}

\* the keys the form of meal_planner_ui.py puts into user_inputs
InputKeys ==
    {"days", "age", "gender", "condition", "kcal_goal", "budget", "preferences"}

\* nutrient_focus_map (lines 137-143)
nutrient_focus_map ==
    [c \in {"General Wellness", "Diabetes Type 2", "Hypertension", "Anaemia", "Pregnancy"} |->
        CASE c = "General Wellness" -> <<"calories", "protein", "carbohydrates", "estimated_cost">>
          [] c = "Diabetes Type 2"
               -> <<"calories", "carbohydrates", "sugars", "protein", "fats", "estimated_cost">>
          [] c = "Hypertension" -> <<"calories", "sodium", "potassium", "protein", "estimated_cost">>
          [] c = "Anaemia" -> <<"calories", "iron", "vitamin_c", "protein", "estimated_cost">>
          [] c = "Pregnancy"
               -> <<"calories", "folate", "iron", "calcium", "protein", "estimated_cost">>]

\* the length food_list_str is cut to (line 149)
FoodListLimit ==
    3000

\* MealPlanner._construct_prompt (lines 133-153): str.format raises
\* KeyError for a field that prompt_vars lacks
construct_prompt(inputs, list_len) ==
    LET condition == IF "condition" \in DOMAIN inputs THEN inputs["condition"]
                     ELSE "General Wellness"
        key_nutrients == IF condition \in DOMAIN nutrient_focus_map
                         THEN nutrient_focus_map[condition]
                         ELSE nutrient_focus_map["General Wellness"]
        prompt_vars == DOMAIN inputs \cup {"food_list_str", "key_nutrients_str"}
    IN  IF TemplateFields \subseteq prompt_vars
        THEN [exc |-> "",
              prompt |-> [vars |-> inputs, key_nutrients |-> key_nutrients,
                          food_list_len |-> IF list_len > FoodListLimit THEN FoodListLimit
                                            ELSE list_len]]
        ELSE [exc |-> "KeyError", prompt |-> NoPrompt]

\* MealPlanResponse.model_validate_json (line 116): the text parses as JSON,
\* holds the list days, every day holds day and the three meals, and every
\* nutrient and cost is a number
IsValidPlan(raw) ==
    raw.json /\ raw.days /\ raw.meals /\ raw.numeric

\* the texts a model may answer with: a plan, text that is no JSON, JSON
\* without days, a day without its meals, a nutrient given as "550 kcal"
Responses ==
    {[json |-> TRUE, days |-> TRUE, meals |-> TRUE, numeric |-> TRUE],
     [json |-> FALSE, days |-> FALSE, meals |-> FALSE, numeric |-> FALSE],
     [json |-> TRUE, days |-> FALSE, meals |-> FALSE, numeric |-> FALSE],
     [json |-> TRUE, days |-> TRUE, meals |-> FALSE, numeric |-> TRUE],
     [json |-> TRUE, days |-> TRUE, meals |-> TRUE, numeric |-> FALSE]}

\* the most keys of the form that user_inputs may lack
MaxMissing ==
    1

Conditions ==
    {"General Wellness", "Anaemia", "Weight Loss"}

\* the user_inputs dicts: the keys of the form but for at most MaxMissing
UserInputs ==
    {[k \in keys |-> IF k = "condition" THEN c ELSE "value"] :
        keys \in {K \in SUBSET InputKeys : Cardinality(InputKeys \ K) <= MaxMissing},
        c \in Conditions}

BackendConfigs ==
    [name : {"", "ollama", "Gemini", "openai"},
     model : {"deepseekcoderafya", "llama3"},
     api_key : {"", "secret"}]

Servers ==
    [up : BOOLEAN, models : SUBSET {"deepseekcoderafya:latest", "mistral:7b"}]

PlannerInit ==
    /\ PipelineAt("off")
    /\ pdf_exists = FALSE
    /\ FnOff
    /\ UiOff
    /\ pl_pc = "new"
    /\ backend_config \in BackendConfigs
    /\ server \in Servers
    /\ user_inputs \in UserInputs
    /\ food_list_len \in {0, FoodListLimit + 1}
    /\ backend = "none"
    /\ prompt = NoPrompt
    /\ raw_response = NoResponse
    /\ pl_exc = ""
    /\ pl_result = <<>>

\* planner = MealPlanner(backend_config)
Construct ==
    /\ pl_pc = "new"
    /\ LET made == NewMealPlanner(backend_config, server)
       IN  /\ pl_exc' = made.exc
           /\ backend' = made.backend
           /\ pl_pc' = IF made.exc = "" THEN "ready" ELSE "failed"
    /\ UNCHANGED <<backend_config, server, user_inputs, food_list_len, prompt,
                   raw_response, pl_result>>
    /\ UNCHANGED <<pipeline_vars, fn_vars, ui_vars>>

\* generate_meal_plan, line 110: outside the try
ConstructPrompt ==
    /\ pl_pc = "ready"
    /\ LET built == construct_prompt(user_inputs, food_list_len)
       IN  /\ prompt' = built.prompt
           /\ pl_exc' = built.exc
           /\ pl_pc' = IF built.exc = "" THEN "prompted" ELSE "raised"
    /\ UNCHANGED <<backend_config, server, user_inputs, food_list_len, backend,
                   raw_response, pl_result>>
    /\ UNCHANGED <<pipeline_vars, fn_vars, ui_vars>>

\* generate_meal_plan, line 113: the backend's generate_plan returns the
\* model's text or wraps what the client raised as PlannerConnectionError
\* (planner_backends.py lines 74-83, 98-117), which lines 126-128 raise again
CallBackend ==
    /\ pl_pc = "prompted"
    /\ \E client_raised \in {"", "ResponseError", "ConnectionError"}, text \in Responses :
          LET raised == ExceptException(client_raised, "PlannerConnectionError")
          IN  IF raised # ""
              THEN /\ text = NoResponse
                   /\ pl_exc' = raised
                   /\ pl_pc' = "raised"
                   /\ UNCHANGED raw_response
              ELSE /\ raw_response' = text
                   /\ pl_pc' = "responded"
                   /\ UNCHANGED pl_exc
    /\ UNCHANGED <<backend_config, server, user_inputs, food_list_len, backend, prompt,
                   pl_result>>
    /\ UNCHANGED <<pipeline_vars, fn_vars, ui_vars>>

\* generate_meal_plan, lines 116-125
Validate ==
    /\ pl_pc = "responded"
    /\ IF IsValidPlan(raw_response)
       THEN /\ pl_result' = <<raw_response, prompt>>
            /\ pl_pc' = "returned"
            /\ UNCHANGED pl_exc
       ELSE /\ pl_exc' = "PlannerResponseValidationError"
            /\ pl_pc' = "raised"
            /\ UNCHANGED pl_result
    /\ UNCHANGED <<backend_config, server, user_inputs, food_list_len, backend, prompt,
                   raw_response>>
    /\ UNCHANGED <<pipeline_vars, fn_vars, ui_vars>>

PlannerNext ==
    \/ Construct
    \/ ConstructPrompt
    \/ CallBackend
    \/ Validate

PlannerSpec ==
    PlannerInit /\ [][PlannerNext]_vars

(***************************************************************************)
(* app.py and the components it routes to.  One action is one run of the   *)
(* script; st.session_state is what a run leaves to the next.  The labels  *)
(* of the sidebar are written without their leading emoji.                 *)
(***************************************************************************)
\* the options of st.radio, lines 74-78
NavOptions ==
    {"Home", "Food Search", "Automated Meal Planner", "Client Reports", "Settings"}

\* the if / elif chain of lines 96-126
RoutePage(mode) ==
    CASE mode = "Home" -> "home"
      [] mode = "Food Search" -> "food_search"
      [] mode = "AI Meal Planner" -> "meal_planner"
      [] mode = "Client Reports" -> "reports"
      [] mode = "Settings" -> "settings"
      [] OTHER -> "none"

\* the options of the condition selectbox that are used here
FormConditions ==
    {"General Wellness", "Diabetes Type 2"}

\* what the Gemini API Key text input may hold
KeyInputs ==
    {"", "key"}

\* how MealPlanner(...) and generate_meal_plan end: a plan returned, or one
\* of the exceptions of lines 85-93
PlannerOutcomes ==
    {"ok", "PlannerConnectionError", "PlannerModelNotFound",
     "PlannerResponseValidationError", "Exception"}

\* the meal plan generated for the inputs with this condition
Plan(condition) ==
    [k |-> "plan", s |-> condition]

\* the user_inputs dict with this condition
Inputs(condition) ==
    [k |-> "inputs", s |-> condition]

EmptyDict ==
    [k |-> "dict", s |-> ""]

\* bool(x) for the values session_state holds; .get of an absent key is None
Truthy(x) ==
    /\ x.k \in {"plan", "inputs", "str"}
    /\ x.k = "str" => x.s # ""

\* lines 98-126: the plan is shown when there is one, with last_user_inputs
\* given to MealPlanReporter
DisplayPlan(ss) ==
    IF Truthy(ss["meal_plan"])
    THEN [plan |-> ss["meal_plan"].s, condition |-> ss["last_user_inputs"].s]
    ELSE NoDisplay

\* show_meal_planner_ui: the session state it leaves, what it shows and how
\* the attempt ended ("" when the form was not submitted)
MealPlannerRun(ss, food_empty, submitted, condition, outcome) ==
    LET s1 == [ss EXCEPT !["meal_plan"] = IF @ = Absent THEN None ELSE @,
                         !["last_user_inputs"] = IF @ = Absent THEN EmptyDict ELSE @]
        s2 == [s1 EXCEPT !["last_user_inputs"] = Inputs(condition)]
        name == lower(IF ss["planner_backend"] = Absent THEN "Ollama"
                      ELSE ss["planner_backend"].s)
        s3 == [s2 EXCEPT !["meal_plan"] = IF outcome = "ok" THEN Plan(condition) ELSE None]
    IN  CASE ~submitted ->
               [session_state |-> s1, displayed |-> DisplayPlan(s1), attempt |-> ""]
          [] submitted /\ food_empty ->
               [session_state |-> s1, displayed |-> NoDisplay, attempt |-> "empty food database"]
          [] submitted /\ ~food_empty /\ name = "gemini" /\ ~Truthy(ss["gemini_api_key"]) ->
               [session_state |-> s2, displayed |-> NoDisplay, attempt |-> "missing API key"]
          [] OTHER ->
               [session_state |-> s3, displayed |-> DisplayPlan(s3), attempt |-> outcome]

\* show_report_generator, lines 13-25: what it reports
ReportRun(ss) ==
    IF ss["meal_plan"] = Absent \/ ~Truthy(ss["meal_plan"]) THEN NoDisplay
    ELSE [plan |-> ss["meal_plan"].s,
          condition |-> IF ss["last_user_inputs"].k = "inputs" THEN ss["last_user_inputs"].s
                        ELSE "General Wellness"]

\* the Planner Backend Settings expander, lines 197-225
SettingsRun(ss, key_input) ==
    [ss EXCEPT !["planner_backend"] = Str("Gemini"),
               !["gemini_api_key"] = Str(key_input),
               !["ollama_model"] = IF @ = Absent THEN Str("deepseekcoderafya") ELSE @]

UiInit ==
    /\ PipelineAt("off")
    /\ pdf_exists = FALSE
    /\ FnOff
    /\ PlannerOff
    /\ ui_pc = "session"
    /\ app_mode = ""
    /\ page = ""
    /\ session_state = [key \in {"meal_plan", "last_user_inputs", "planner_backend",
                                 "gemini_api_key", "ollama_model"} |-> Absent]
    /\ displayed = NoDisplay
    /\ attempt = ""

\* one run of app.py with the sidebar option mode; no button of the
\* Settings page is pressed
RunApp ==
    /\ ui_pc = "session"
    /\ \E mode \in NavOptions, food_empty \in BOOLEAN, submitted \in BOOLEAN,
          condition \in FormConditions, outcome \in PlannerOutcomes, key_input \in KeyInputs :
          LET to == RoutePage(mode)
              planner == MealPlannerRun(session_state, food_empty, submitted, condition, outcome)
          IN  /\ app_mode' = mode
              /\ page' = to
              /\ session_state' = CASE to = "meal_planner" -> planner.session_state
                                    [] to = "settings" -> SettingsRun(session_state, key_input)
                                    [] OTHER -> session_state
              /\ displayed' = CASE to = "meal_planner" -> planner.displayed
                                [] to = "reports" -> ReportRun(session_state)
                                [] OTHER -> NoDisplay
              /\ attempt' = IF to = "meal_planner" /\ submitted THEN planner.attempt
                            ELSE attempt
    /\ UNCHANGED ui_pc
    /\ UNCHANGED <<pipeline_vars, fn_vars, planner_vars>>

\* show_meal_planner_ui(food_df) called on its own, as line 121 calls it
ShowMealPlannerUi ==
    /\ ui_pc = "session"
    /\ \E food_empty \in BOOLEAN, submitted \in BOOLEAN,
          condition \in FormConditions, outcome \in PlannerOutcomes :
          LET planner == MealPlannerRun(session_state, food_empty, submitted, condition, outcome)
          IN  /\ session_state' = planner.session_state
              /\ displayed' = planner.displayed
              /\ attempt' = IF submitted THEN planner.attempt ELSE attempt
    /\ UNCHANGED <<ui_pc, app_mode, page>>
    /\ UNCHANGED <<pipeline_vars, fn_vars, planner_vars>>

UiNext ==
    \/ RunApp
    \/ ShowMealPlannerUi

UiSpec ==
    UiInit /\ [][UiNext]_vars

(***************************************************************************)
(* Properties of a run.                                                    *)
(***************************************************************************)
\* post_process_data has returned: final_df is the final dataset
HasFinal ==
    pc \in {"save", "finish", "done"} /\ all_dfs # <<>>

\* both strategies were called and exactly one threw, the other returning
\* at least one table
Degraded ==
    \/ lattice_call = "threw" /\ stream_call = "ok" /\ stream_tables # <<>>
    \/ stream_call = "threw" /\ lattice_call = "ok" /\ lattice_dfs # <<>>

FinalCell(row, name) ==
    row[ColIdx(final_df, name)]

FinalKey(row) ==
    <<FinalCell(row, "food_code"), FinalCell(row, "food_name_english")>>

\* C1: when both strategies yield no table, by returning none or by
\* throwing, the output file is never written and the function returns an
\* empty frame, without an exception.
C1_NoTablesNoOutput ==
    (/\ lattice_call # "none"
     /\ stream_call # "none"
     /\ lattice_dfs = <<>>
     /\ stream_tables = <<>>)
    => /\ csv = <<>>
       /\ pc \in {"merge", "done"}
       /\ exc = ""
       /\ pc = "done" => result = EmptyDataFrame

C1_Witness ==
    /\ pc = "done"
    /\ lattice_call = "threw"
    /\ stream_call = "ok"
    /\ stream_tables = <<>>
    /\ progress = <<0, 5, 20, 50>>

\* C2: when exactly one strategy throws and the other returns at least one
\* table, the run does not abort: the failure is recorded as a message, and
\* the run returns the dataset built from the surviving tables, with the
\* output file written.
C2_DegradedRunSucceeds ==
    Degraded
    => /\ pc # "raised"
       /\ \E m \in 1..Len(messages) : messages[m].level \in {"warning", "error"}
       /\ pc = "done" => /\ csv = <<final_df>>
                         /\ result = final_df
                         /\ all_dfs = (IF lattice_call = "threw" THEN stream_tables
                                       ELSE lattice_dfs)

\* C3: when the path does not exist the function reports it and returns an
\* empty frame; neither strategy is called and the output file is not
\* written.
C3_MissingPathStopsRun ==
    (~pdf_exists /\ pc # "start")
    => /\ pc = "done"
       /\ result = EmptyDataFrame
       /\ messages = <<Msg("error", "PDF file not found")>>
       /\ lattice_call = "none"
       /\ stream_call = "none"
       /\ csv = <<>>
       /\ exc = ""

C3_Witness ==
    ~pdf_exists /\ pc = "done" /\ progress = <<>>

\* C4: the output file is written at most once, and what is written is the
\* frame post_process_data returned for the cleaned, concatenated tables of
\* the whole run.
C4_WriteOnceAfterPostProcess ==
    /\ Len(csv) <= 1
    /\ csv # <<>>
       => /\ pc \in {"finish", "done"}
          /\ exc = ""
          /\ full_df = CleanAndConcat(all_dfs)
          /\ post_process_data(full_df) = [exc |-> "", df |-> csv[1]]

C4_Witness ==
    /\ pc = "finish"
    /\ Len(csv) = 1
    /\ Len(all_dfs) = 2
    /\ Len(csv[1].rows) >= 2

\* C5: no two records of the final dataset share (food_code,
\* food_name_english), every pair of the rows that reach the deduplication
\* is kept, and the record kept for a pair is the first row with that pair,
\* with that row's own values.
C5_FirstOfEachPairKept ==
    HasFinal
    => LET before == BeforeDedup(full_df)
           shown == SelectFinal(before)
           FirstWith(key) ==
               CHOOSE i \in 1..Len(before.rows) :
                   /\ DupKey(before, before.rows[i]) = key
                   /\ \A j \in 1..(i - 1) : DupKey(before, before.rows[j]) # key
       IN  /\ \A i, j \in 1..Len(final_df.rows) :
                 i # j => FinalKey(final_df.rows[i]) # FinalKey(final_df.rows[j])
           /\ \A i \in 1..Len(before.rows) :
                 \E f \in 1..Len(final_df.rows) :
                     FinalKey(final_df.rows[f]) = DupKey(before, before.rows[i])
           /\ \A f \in 1..Len(final_df.rows) :
                 final_df.rows[f] = shown.rows[FirstWith(FinalKey(final_df.rows[f]))]

C5_Witness ==
    /\ pc = "done"
    /\ HasFinal
    /\ LET before == BeforeDedup(full_df)
       IN  \E i, j \in 1..Len(before.rows) :
              /\ i < j
              /\ DupKey(before, before.rows[i]) = DupKey(before, before.rows[j])
              /\ before.rows[i] # before.rows[j]

\* C6: every record of the final dataset has a food_code that is present
\* and not empty.
C6_FoodCodePresent ==
    HasFinal
    => \A f \in 1..Len(final_df.rows) :
          /\ IsStr(FinalCell(final_df.rows[f], "food_code"))
          /\ FinalCell(final_df.rows[f], "food_code").s # ""

\* C7: every record of the final dataset has a food_name_english that is
\* present and whose trimmed length is greater than 2.
C7_NamesLongerThanTwo ==
    HasFinal
    => \A f \in 1..Len(final_df.rows) :
          /\ IsStr(FinalCell(final_df.rows[f], "food_name_english"))
          /\ Len(strip(FinalCell(final_df.rows[f], "food_name_english").s)) > 2

\* a run that returned records and in which a row with a two-letter name,
\* extracted inside white space, reached the name filter
C7_Witness ==
    /\ pc = "done"
    /\ HasFinal
    /\ final_df.rows # <<>>
    /\ \E t \in 1..Len(all_dfs) : \E r \in 1..Len(all_dfs[t].rows) :
          \E j \in 1..Len(all_dfs[t].rows[r]) : all_dfs[t].rows[r][j] = Str(" Fe\n")
    /\ LET d == AddCategory(CleanNumeric(DropHeaderLeaks(IdentifyColumns(full_df)), 1))
       IN  \E r \in 1..Len(d.rows) : d.rows[r][ColIdx(d, "food_name_english")] = Str("Fe")

\* the rows of the concatenated frame, table by table
RECURSIVE Segments(_, _, _)
Segments(rows, dfs, t) ==
    IF t > Len(dfs) THEN <<>>
    ELSE LET n == Len(clean_table(dfs[t]).rows)
         IN  <<SubSeq(rows, 1, n)>> \o Segments(SubSeq(rows, n + 1, Len(rows)), dfs, t + 1)

\* C8: the forward-fill stays inside a table: the code of every row is the
\* nearest valid code at or before it in its own table, and a row with no
\* valid code before it in its table has none.
C8_FillWithinTable ==
    ((HasFinal \/ pc = "raised") /\ Len(full_df.columns) > 1)
    => LET segs == Segments(full_df.rows, all_dfs, 1)
       IN  DerivedCodes(full_df) =
               Flatten([t \in 1..Len(segs) |->
                           ffill(RawCodes([columns |-> full_df.columns, rows |-> segs[t]]))])

\* C9: in every final record food_code is the forward-filled code derived
\* from the first raw column and food_name_english the name derived from
\* the first two raw columns of the same row; the renaming from the header
\* row leaves the two derived columns their names and gives these names to
\* no other column.
C9_IdentityColumnsKept ==
    (HasFinal /\ final_df.rows # <<>>)
    => LET d == IdentifyColumns(full_df)
           n == Len(d.columns)
       IN  /\ d.columns[n - 1] = "food_code"
           /\ d.columns[n] = "food_name_english"
           /\ ColCount(d, "food_code") = 1
           /\ ColCount(d, "food_name_english") = 1
           /\ \A f \in 1..Len(final_df.rows) :
                 \E r \in 1..Len(full_df.rows) :
                     FinalKey(final_df.rows[f])
                         = <<DerivedCodes(full_df)[r], DerivedNames(full_df)[r]>>

\* C10: the columns of the final dataset are food_code, food_name_english,
\* category and the 13 nutrient keys, in this order: every nutrient column
\* is present whatever the header labels were, and no other column is.
C10_AllCanonicalColumns ==
    (HasFinal /\ final_df.rows # <<>>) => final_df.columns = final_cols

\* t matches \d+\.?\d* from its first to its last character
IsNumberToken(t) ==
    \E a \in 1..Len(t) :
       /\ \A i \in 1..a : IsDigit(CharAt(t, i))
       /\ \/ a = Len(t)
          \/ /\ CharAt(t, a + 1) = "."
             /\ \A i \in (a + 2)..Len(t) : IsDigit(CharAt(t, i))

\* v is the number the first numeric token of the text s denotes, 0 when s
\* holds no digit
IsFirstTokenValue(s, v) ==
    LET digs == {i \in 1..Len(s) : IsDigit(CharAt(s, i))}
        i == CHOOSE d \in digs : \A e \in digs : d <= e
        ends == {j \in i..Len(s) : IsNumberToken(SubSeq(s, i, j))}
        j == CHOOSE e \in ends : \A g \in ends : g <= e
    IN  IF digs = {} THEN v = Num("0") ELSE v = ToNumeric(SubSeq(s, i, j))

\* v is a number without a sign: digits, with at most one point inside
IsPlainNumber(v) ==
    /\ v.k = "num"
    /\ v.s # ""
    /\ \A i \in 1..Len(v.s) : IsDigit(CharAt(v.s, i)) \/ CharAt(v.s, i) = "."
    /\ Cardinality({i \in 1..Len(v.s) : CharAt(v.s, i) = "."}) <= 1
    /\ IsDigit(CharAt(v.s, 1))
    /\ IsDigit(CharAt(v.s, Len(v.s)))

\* the rows of the final dataset as they were before the numeric cleaning
RawFinal ==
    drop_duplicates(DropBadNames(AddCategory(DropHeaderLeaks(IdentifyColumns(full_df)))))

\* the nutrient columns of the final dataset
FinalNutrients ==
    {c \in Range(nutrient_cols) : ColCount(final_df, c) > 0}

\* C11: every value of a nutrient column of a final record is a number
\* without a sign; it is the first decimal-or-integer token of the raw cell
\* text, and 0 when the raw text holds no digit.
C11_FirstNumericToken ==
    HasFinal
    => LET before == RawFinal
           at == [c \in FinalNutrients |-> ColIdx(before, c)]
       IN  /\ Len(before.rows) = Len(final_df.rows)
           /\ \A f \in 1..Len(final_df.rows) : \A c \in FinalNutrients :
                 LET v == FinalCell(final_df.rows[f], c)
                     raw == PyStr(before.rows[f][at[c]])
                 IN  /\ IsPlainNumber(v)
                     /\ IsFirstTokenValue(raw, v)
                     /\ raw = "12.5 tr" => v = Num("12.5")
                     /\ raw = "7" => v = Num("7")
                     /\ raw \in {"tr", "*", "", "nan"} => v = Num("0")

\* a run that returned a record whose raw cell "12.5 tr" became 12.5 and a
\* record whose raw cell "tr" became 0
C11_Witness ==
    /\ pc = "done"
    /\ HasFinal
    /\ LET before == RawFinal
       IN  \E f, g \in 1..Len(final_df.rows) :
              /\ before.rows[f][ColIdx(before, "protein_g")] = Str("12.5 tr")
              /\ FinalCell(final_df.rows[f], "protein_g") = Num("12.5")
              /\ before.rows[g][ColIdx(before, "protein_g")] = Str("tr")
              /\ FinalCell(final_df.rows[g], "protein_g") = Num("0")

\* the first character of a food_code cell, "" for a missing or empty one
LeadingChar(x) ==
    IF IsStr(x) /\ x.s # "" THEN CharAt(x.s, 1) ELSE ""

\* C12 as stated: the category is a function of the first character of
\* food_code; every letter of A..N, P and S has a category of its own (A
\* the cereals, G the meats), any other first character gives Uncategorized.
C12_EveryLetterThroughN ==
    HasFinal
    => \A f, g \in 1..Len(final_df.rows) :
          LET a == LeadingChar(FinalCell(final_df.rows[f], "food_code"))
              b == LeadingChar(FinalCell(final_df.rows[g], "food_code"))
              ca == FinalCell(final_df.rows[f], "category")
              cb == FinalCell(final_df.rows[g], "category")
          IN  /\ a = b => ca = cb
              /\ CharIn(a, "ABCDEFGHIJKLMNPS")
                 => /\ ca # Str("Uncategorized")
                    /\ a # b => ca # cb
              /\ ~CharIn(a, "ABCDEFGHIJKLMNPS") => ca = Str("Uncategorized")
              /\ a = "A" => ca = Str("Cereals and their products")
              /\ a = "G" => ca = Str("Meat, poultry and their products")

\* C12 as amended: the letters with a category of their own are the 15
\* letters A..H, J..N, P and S; any other first character, the letter I
\* and a digit among them, and a missing code give Uncategorized.
C12_CategoryOfLeadingLetter ==
    HasFinal
    => \A f, g \in 1..Len(final_df.rows) :
          LET a == LeadingChar(FinalCell(final_df.rows[f], "food_code"))
              b == LeadingChar(FinalCell(final_df.rows[g], "food_code"))
              ca == FinalCell(final_df.rows[f], "category")
              cb == FinalCell(final_df.rows[g], "category")
          IN  /\ a = b => ca = cb
              /\ CharIn(a, "ABCDEFGHJKLMNPS")
                 => /\ ca # Str("Uncategorized")
                    /\ a # b => ca # cb
              /\ ~CharIn(a, "ABCDEFGHJKLMNPS") => ca = Str("Uncategorized")
              /\ a = "A" => ca = Str("Cereals and their products")
              /\ a = "G" => ca = Str("Meat, poultry and their products")

\* a run that returned a cereal, a code under I and a code of digits only
C12_Witness ==
    /\ pc = "done"
    /\ HasFinal
    /\ \E f, g, h \in 1..Len(final_df.rows) :
          /\ FinalCell(final_df.rows[f], "food_code") = Str("A1")
          /\ FinalCell(final_df.rows[f], "category") = Str("Cereals and their products")
          /\ FinalCell(final_df.rows[g], "food_code") = Str("I3")
          /\ FinalCell(final_df.rows[g], "category") = Str("Uncategorized")
          /\ FinalCell(final_df.rows[h], "food_code") = Str("1034")
          /\ FinalCell(final_df.rows[h], "category") = Str("Uncategorized")

\* C17: whenever the two strategies returned at least one table,
\* extract_and_clean_pdf completes without raising: a table without a
\* header row, a table of fewer than two columns and a header row with no
\* label, or with two labels, for protein_g do not abort the run.
C17_NeverRaises ==
    all_dfs # <<>> => (pc # "raised" /\ exc = "")

\* C18: the percentages given to the progress bar are strictly increasing;
\* 100 is given only once the output file is written; a run that ends
\* without a table never gives a percentage above that of the
\* cleaning/merge step.
C18_ProgressIncreases ==
    /\ \A i, j \in 1..Len(progress) : i < j => progress[i] < progress[j]
    /\ (\E i \in 1..Len(progress) : progress[i] = 100) => Len(csv) = 1
    /\ (pc = "done" /\ pdf_exists /\ lattice_dfs \o stream_tables = <<>>)
       => /\ progress # <<>>
          /\ \A i \in 1..Len(progress) : progress[i] <= ProgressAt("merge")

\* a run that wrote the output file and reported all six milestones
C18_Witness ==
    /\ pc = "done"
    /\ Len(csv) = 1
    /\ progress = <<0, 5, 20, 50, 90, 100>>

\* the row holds the three keywords, each inside the text of one cell
HoldsAnchors(row) ==
    \A anchor \in {"food", "protein", "energy"} :
       \E j \in 1..Len(row) : Contains(anchor, lower(PyStr(row[j])))

\* C13: for every table find_header_row returns the index of the first
\* row, from the top, whose case-folded cells hold "food", "protein" and
\* "energy", and 0 when no row holds all three.
C13_FirstRowWithAnchors ==
    fn_pc = "located"
    => IF \E i \in 1..Len(fragment.rows) : HoldsAnchors(fragment.rows[i])
       THEN /\ header_row \in 0..(Len(fragment.rows) - 1)
            /\ HoldsAnchors(fragment.rows[header_row + 1])
            /\ \A i \in 1..header_row : ~HoldsAnchors(fragment.rows[i])
       ELSE header_row = 0

\* a table whose first row lacks a keyword and whose second and third rows
\* hold all three
C13_Witness ==
    /\ fn_pc = "located"
    /\ header_row = 1
    /\ Len(fragment.rows) = 3
    /\ HoldsAnchors(fragment.rows[3])

\* the text is one optional upper-case letter, then one to four digits
IsCodeText(t) ==
    \E n \in 1..4 :
       \/ Len(t) = n /\ \A i \in 1..n : IsDigit(CharAt(t, i))
       \/ /\ Len(t) = n + 1
          /\ CharIn(CharAt(t, 1), "ABCDEFGHIJKLMNOPQRSTUVWXYZ")
          /\ \A i \in 2..(n + 1) : IsDigit(CharAt(t, i))

\* C14: the code of a row is its first cell exactly when the text of the
\* cell is one optional upper-case letter followed by one to four digits and
\* nothing else, and null otherwise.
C14_CodePatternExact ==
    fn_pc = "matched"
    => /\ code \in {cell, None}
       /\ code = cell <=> (IsStr(cell) /\ IsCodeText(cell.s))
       /\ cell \in {Str("A12"), Str("1034"), Str("B7")} => code = cell
       /\ cell \in {Str("Ugali"), Str("12AB"), Str(""), Str("a12"), Str("12345"), NaN}
          => code = None

\* a letter and four digits, accepted
C14_Witness ==
    fn_pc = "matched" /\ cell = Str("A7777") /\ code = Str("A7777")

\* C15: clean_table applied to its own result changes nothing.
C15_CleanTableIdempotent ==
    fn_pc = "recleaned" => recleaned = cleaned

\* a table of which the first pass dropped a row and changed a cell
C15_Witness ==
    /\ fn_pc = "recleaned"
    /\ Len(cleaned.rows) = 1
    /\ Len(fragment.rows) = 2
    /\ \E j \in 1..Len(cleaned.columns) : cleaned.rows[1][j] = Str("a  b")

\* a missing cell or a cell of empty text
IsEmptyCell(x) ==
    IsNA(x) \/ x = Str("")

\* C16: after clean_table no row and no column of the table holds empty
\* cells only, a missing cell and a cell of empty text both counting as
\* empty, and every row has one cell per column.
C16_NoEmptyRowOrColumn ==
    fn_pc = "cleaned"
    => /\ \A r \in 1..Len(cleaned.rows) :
             /\ Len(cleaned.rows[r]) = Len(cleaned.columns)
             /\ \E j \in 1..Len(cleaned.columns) : ~IsEmptyCell(cleaned.rows[r][j])
       /\ \A j \in 1..Len(cleaned.columns) :
             \E r \in 1..Len(cleaned.rows) : ~IsEmptyCell(cleaned.rows[r][j])

\* the three exception classes the planner declares
PlannerErrors ==
    {"PlannerConnectionError", "PlannerModelNotFound", "PlannerResponseValidationError"}

\* C19: generate_meal_plan returns the validated plan with the prompt, or
\* raises one of the three planner exceptions; no other exception leaves
\* it, whatever user_inputs holds and whatever the backend answers.
C19_OnlyPlannerErrorsEscape ==
    /\ pl_pc = "raised" => pl_exc \in PlannerErrors
    /\ pl_pc = "returned"
       => /\ pl_exc = ""
          /\ pl_result = <<raw_response, prompt>>
          /\ IsValidPlan(raw_response)
          /\ prompt # NoPrompt

\* C20: when the Ollama server answers and lists no model whose name holds
\* the configured model, the construction of OllamaBackend fails with
\* PlannerModelNotFound.
C20_MissingModelIsModelNotFound ==
    (/\ pl_pc \notin {"off", "new"}
     /\ lower(backend_config.name) = "ollama"
     /\ server.up
     /\ \A name \in server.models : ~Contains(backend_config.model, name))
    => pl_pc = "failed" /\ pl_exc = "PlannerModelNotFound"

\* C21: every fragment is mapped from its own header row and loses only the
\* rows at or above its own header row: the rows left after the renaming
\* are, fragment by fragment, the rows under that fragment's header row,
\* and each fragment that keeps rows gets the column names its own header
\* row gives.
C21_HeaderPerFragment ==
    ((HasFinal \/ pc = "raised") /\ Len(full_df.columns) > 1)
    => LET d == DeriveIdentity(full_df)
           whole == standardize_columns(d)
           segs == Segments(d.rows, all_dfs, 1)
           own == [t \in 1..Len(segs) |->
                      IF segs[t] = <<>> THEN [columns |-> whole.columns, rows |-> <<>>]
                      ELSE standardize_columns([columns |-> d.columns, rows |-> segs[t]])]
       IN  /\ whole.rows = Flatten([t \in 1..Len(segs) |-> own[t].rows])
           /\ \A t \in 1..Len(segs) :
                 own[t].rows # <<>> => own[t].columns = whole.columns

\* the frame standardize_columns was given, and the header row it used
Derived ==
    DeriveIdentity(fragment)

HeaderUsed ==
    Derived.rows[find_header_row(Derived) + 1]

\* the rules whose pattern is a substring of the case-folded header cell
RulesIn(x) ==
    {m \in 1..Len(column_map) : Contains(column_map[m][1], lower(PyStr(x)))}

\* the 0-based position of column j, as text
PositionText(j) ==
    <<"0", "1", "2", "3", "4", "5">>[j]

IsUnknownName(name) ==
    Len(name) >= 8 /\ SubSeq(name, 1, 8) = "unknown_"

\* what C22 says of the column names but for the name of an unmatched
\* column: the first rule found in the header cell gives the name
FirstRuleNames(header) ==
    \A j \in 1..Len(standardized.columns) :
       LET x == header[j]
           rules == RulesIn(x)
           name == standardized.columns[j]
       IN  /\ \A m \in rules : (\A n \in rules : m <= n) => name = column_map[m][2]
           /\ rules = {} <=> IsUnknownName(name)
           /\ x = Str("Food code") => name = "food_code"
           /\ x = Str("FOOD") => name = "food_name_english"
           /\ x = Str("Carbohydrate") => name = "carbs_g"

\* the unmatched columns are still there before the final projection and
\* are not in the frame returned
UnknownKeptUntilProjection ==
    projected.exc = ""
    => LET before == drop_duplicates(BeforeDedup(fragment))
       IN  \A j \in 1..Len(standardized.columns) :
              IsUnknownName(standardized.columns[j])
              => /\ ColCount(before, standardized.columns[j]) = 1
                 /\ ColCount(projected.df, standardized.columns[j]) = 0

\* C22 as stated: each column is named by the first rule of the rule table
\* found in the case-folded header cell; a column whose header cell holds
\* no rule is named unknown_<position> and kept until the final projection.
C22_UnknownByPosition ==
    fn_pc = "processed"
    => LET header == HeaderUsed
       IN  /\ FirstRuleNames(header)
           /\ \A j \in 1..Len(standardized.columns) :
                 IsUnknownName(standardized.columns[j])
                 => standardized.columns[j] = "unknown_" \o PositionText(j)
           /\ UnknownKeptUntilProjection

\* C22 as amended: a column whose header cell holds no rule is named
\* unknown_<label>, the label being the one the column has when
\* standardize_columns is called: col1 and col2 for the first two columns,
\* the 0-based position for the other extracted columns, food_code and
\* food_name_english for the two derived columns.
C22_UnknownByLabel ==
    fn_pc = "processed"
    => LET header == HeaderUsed
           n == Len(standardized.columns)
       IN  /\ FirstRuleNames(header)
           /\ \A j \in 1..n :
                 IsUnknownName(standardized.columns[j])
                 => standardized.columns[j] =
                        "unknown_" \o (CASE j = 1 -> "col1"
                                         [] j = 2 -> "col2"
                                         [] j = n - 1 -> "food_code"
                                         [] j = n -> "food_name_english"
                                         [] OTHER -> PositionText(j))
           /\ UnknownKeptUntilProjection

\* post_process_data returned records for a frame whose header row holds a
\* label with two rules in it, over a first column without a label
C22_Witness ==
    /\ fn_pc = "processed"
    /\ projected.exc = ""
    /\ projected.df.rows # <<>>
    /\ HeaderUsed[1] = NaN
    /\ HeaderUsed[2] = Str("Food code")
    /\ standardized.columns[1] = "unknown_col1"
    /\ standardized.columns[2] = "food_code"

\* the text of the cell x holds the word protein, in any letter case
HoldsProtein(x) ==
    /\ IsStr(x)
    /\ \E i \in 1..(Len(x.s) - 6) : lower(SubSeq(x.s, i, i + 6)) = "protein"

\* the identity of a record post_process_data returned
ProjectedKey(row) ==
    <<row[ColIdx(projected.df, "food_code")], row[ColIdx(projected.df, "food_name_english")]>>

\* C23: the header-leak filter works on the protein_g cells as they are
\* before the numeric parsing: it drops the rows whose cell holds the word
\* protein in any letter case, which are in no final record, and drops no
\* other row, a row without a protein_g value included: such a row with a
\* valid name is a final record.
C23_HeaderLeakFilter ==
    (fn_pc = "processed" /\ projected.exc = "")
    => LET p == ColIdx(standardized, "protein_g")
           name == ColIdx(standardized, "food_name_english")
           kept == DropHeaderLeaks(standardized)
           keys == {ProjectedKey(projected.df.rows[f]) : f \in 1..Len(projected.df.rows)}
       IN  /\ kept.columns = standardized.columns
           /\ kept.rows = SelectSeq(standardized.rows, LAMBDA row : ~HoldsProtein(row[p]))
           /\ \A r \in 1..Len(standardized.rows) :
                 LET row == standardized.rows[r]
                 IN  /\ HoldsProtein(row[p]) => DupKey(standardized, row) \notin keys
                     /\ (~HoldsProtein(row[p]) /\ IsStr(row[name]) /\ Len(row[name].s) > 2)
                        => DupKey(standardized, row) \in keys

\* post_process_data returned the record of a row without a protein_g
\* value and dropped the rows holding Protein and PROTEIN, g
C23_Witness ==
    /\ fn_pc = "processed"
    /\ projected.exc = ""
    /\ LET p == ColIdx(standardized, "protein_g")
       IN  /\ \E r \in 1..Len(standardized.rows) : standardized.rows[r][p] = Str("Protein")
           /\ \E r \in 1..Len(standardized.rows) : standardized.rows[r][p] = Str("PROTEIN, g")
           /\ \E r \in 1..Len(standardized.rows) :
                 /\ standardized.rows[r][p] = NaN
                 /\ \E f \in 1..Len(projected.df.rows) :
                       ProjectedKey(projected.df.rows[f]) =
                           DupKey(standardized, standardized.rows[r])
    /\ Len(projected.df.rows) = 2

\* C24: every data row becomes a record of its own: a row with a valid
\* code under that code and the name of the second raw column, a row
\* without one under the inherited code and the text of the first raw
\* column; whenever that name is a valid name and the row repeats no header
\* label, the final dataset holds a record with this code and this name.
C24_RowsKeepDerivedIdentity ==
    (pc \in {"save", "finish", "done", "raised"} /\ all_dfs # <<>> /\ Len(full_df.columns) > 1)
    => LET d == DeriveIdentity(full_df)
           first == find_header_row(d) + 2
           codes == DerivedCodes(full_df)
           names == DerivedNames(full_df)
           keys == IF final_df.rows = <<>> THEN {}
                   ELSE {FinalKey(final_df.rows[f]) : f \in 1..Len(final_df.rows)}
       IN  \A r \in first..Len(full_df.rows) :
              LET row == full_df.rows[r]
              IN  /\ names[r] = (IF IsFoodCode(row[1]) THEN row[2] ELSE row[1])
                  /\ (/\ IsStr(names[r])
                      /\ Len(names[r].s) > 2
                      /\ \A j \in 1..Len(row) : ~HoldsProtein(row[j]))
                     => <<codes[r], names[r]>> \in keys

\* C25: after clean_table a text cell holds no line break, has no white
\* space at either end and holds no two white-space characters in a row.
C25_WhitespaceCollapsed ==
    fn_pc = "cleaned"
    => \A r \in 1..Len(cleaned.rows) : \A j \in 1..Len(cleaned.rows[r]) :
          LET x == cleaned.rows[r][j]
          IN  IsStr(x)
              => /\ \A i \in 1..Len(x.s) : CharAt(x.s, i) \notin {"\n", "\r"}
                 /\ strip(x.s) = x.s
                 /\ \A i \in 1..(Len(x.s) - 1) :
                       ~(CharAt(x.s, i) \in Whitespace /\ CharAt(x.s, i + 1) \in Whitespace)

\* C26: the lattice tables come first in the merged sequence, and when the
\* tables of each strategy, processed alone, both give a record with the
\* same food_code and food_name_english, the final dataset holds a record
\* with this pair which carries the values of the lattice record.
C26_LatticeRecordKept ==
    (HasFinal /\ lattice_dfs # <<>> /\ stream_tables # <<>>)
    => /\ all_dfs = lattice_dfs \o stream_tables
       /\ LET fromLattice == post_process_data(CleanAndConcat(lattice_dfs))
              fromStream == post_process_data(CleanAndConcat(stream_tables))
              shared == {c \in Range(final_cols) :
                            ColCount(fromLattice.df, c) > 0 /\ ColCount(final_df, c) > 0}
          IN  (fromLattice.exc = "" /\ fromStream.exc = "")
              => \A l \in 1..Len(fromLattice.df.rows) : \A s \in 1..Len(fromStream.df.rows) :
                    LET kept == fromLattice.df.rows[l]
                    IN  DupKey(fromLattice.df, kept) = DupKey(fromStream.df, fromStream.df.rows[s])
                        => \E f \in 1..Len(final_df.rows) :
                              \A c \in shared :
                                  FinalCell(final_df.rows[f], c)
                                      = kept[ColIdx(fromLattice.df, c)]

\* C27: the output file is written and success reported only for a final
\* dataset of at least one record.
C27_NoEmptySuccess ==
    (\/ csv # <<>>
     \/ \E m \in 1..Len(messages) : messages[m].level = "success")
    => final_df.rows # <<>>

\* C28: the frame standardize_columns returns has no two columns of the
\* same name.
C28_ColumnNamesUnique ==
    fn_pc = "processed"
    => \A i, j \in 1..Len(standardized.columns) :
          i # j => standardized.columns[i] # standardized.columns[j]

\* C29: every option of the sidebar routes to a page, and the meal-planner
\* option to the page of show_meal_planner_ui.
C29_EveryOptionRoutes ==
    app_mode # ""
    => /\ app_mode \in NavOptions
       /\ page # "none"
       /\ app_mode = "Automated Meal Planner" => page = "meal_planner"

\* the ways a submitted attempt ends without a plan
FailedAttempts ==
    {"empty food database", "missing API key"} \cup (PlannerOutcomes \ {"ok"})

\* C30: after a submitted attempt that did not succeed meal_plan is None,
\* and a plan is only ever displayed or reported with the condition of the
\* inputs it was generated for.
C30_FailedAttemptClearsPlan ==
    /\ attempt \in FailedAttempts => session_state["meal_plan"] = None
    /\ displayed # NoDisplay => displayed.plan = displayed.condition

====
